---- MODULE Spec2Model ----
(***************************************************************************)
(* A model of the graph preprocessing and data-pipeline layer of the GCN   *)
(* repository: Base_Graph / Graph (label, feature and network loading,     *)
(* adjacency transforms, Chebyshev supports), DataPipeline (shuffle, split,*)
(* feed dicts) and the masked objective of the auto-encoder Base_Model.    *)
(*                                                                         *)
(* Conventions.  Python indices are 0-based and are kept: a matrix is a    *)
(* function [0..n-1 -> [0..m-1 -> value]].  A dict whose iteration order   *)
(* matters is a sequence of [key, value] records in insertion order; every *)
(* other dict is a TLA+ function.  Python's None is the value None.        *)
(***************************************************************************)
EXTENDS Integers, Sequences, FiniteSets, TLC

VARIABLES
    pc,                   \* position of the run: which call has returned / raised
    graph,                \* the fields of the Base_Graph object
    data,                 \* rows of the label file of the last read_labels call
    asserted,             \* operands compared by the assertions of read_labels
    calls,                \* number of read_labels calls made
    call,                 \* arguments of a module-level function call
    ret,                  \* value returned by that call
    model_params,         \* the model_params object
    pipeline,             \* the fields of the DataPipeline object
    locals,               \* locals of _populate_feed_dicts (shuffle, index blocks)
    model                 \* the fields of the auto-encoder Base_Model object

vars == <<pc, graph, data, asserted, calls, call, ret, model_params, pipeline,
          locals, model>>

None == [kind |-> "None"]

(***************************************************************************)
(* Bounds of the model.                                                    *)
(***************************************************************************)
MaxNodes == 2        \* distinct raw node strings in the input files
MaxLabels == 2       \* distinct raw label strings
MaxRows == 3         \* rows of a label file
MaxEdges == 2        \* rows of a network file
MaxCalls == 2        \* read_labels calls on one graph object

NodeNames == {"n" \o ToString(i) : i \in 1..MaxNodes}
LabelNames == {"l" \o ToString(i) : i \in 1..MaxLabels}

(***************************************************************************)
(* Generic helpers.                                                        *)
(***************************************************************************)
Range(f) == {f[x] : x \in DOMAIN f}

RECURSIVE SumOver(_, _)
SumOver(S, f) ==
    IF S = {} THEN 0
    ELSE LET x == CHOOSE y \in S : TRUE
         IN f[x] + SumOver(S \ {x}, f)

\* enumerate(set(...)): a set is enumerated in an order the language does not
\* fix, so every bijection onto 0..len-1 is a possible id assignment.
Enumerations(S) ==
    {f \in [S -> 0..(Cardinality(S) - 1)] :
        \A x, y \in S : f[x] = f[y] => x = y}

\* the keys of a dict filled by a loop over rows, in insertion order: the
\* distinct values of column `col` in order of first appearance
RECURSIVE FirstSeen(_, _)
FirstSeen(rows, col) ==
    IF rows = <<>> THEN <<>>
    ELSE LET front == FirstSeen(SubSeq(rows, 1, Len(rows) - 1), col)
             x == rows[Len(rows)][col]
         IN IF x \in Range(front) THEN front ELSE Append(front, x)

\* app.utils.util.invert_dict
invert_dict(d) ==
    [v \in Range(d) |-> CHOOSE k \in DOMAIN d : d[k] = v]

\* app.utils.util.map_set_to_khot_vector
map_set_to_khot_vector(index_set, num_classes) ==
    [c \in 0..(num_classes - 1) |-> IF c \in index_set THEN 1 ELSE 0]

EmptyDict == [x \in {} |-> 0]

(***************************************************************************)
(* Base_Graph.__init__                                                     *)
(***************************************************************************)
NewGraph ==
    [ features |-> None, adj |-> None, labels |-> None,
      label_to_id_map |-> EmptyDict, id_to_label_map |-> EmptyDict,
      node_to_id_map |-> EmptyDict, id_to_node_map |-> EmptyDict,
      label_to_node_map |-> <<>>, node_to_label_map |-> <<>>,
      edge_count |-> -1 ]

(***************************************************************************)
(* Base_Graph.read_labels                                                  *)
(***************************************************************************)
\* np.genfromtxt of a label file with at least two rows (a one-row file
\* gives a 1-D array and is not a table of (node, label) pairs)
LabelFiles == UNION {[1..k -> NodeNames \X LabelNames] : k \in 2..MaxRows}

\* lines 51-65: set(list(map(...))) of the node column and of the label column
NodesOf(rows) == {rows[i][1] : i \in 1..Len(rows)}

LabelsOf(rows) == {rows[i][2] : i \in 1..Len(rows)}

\* lines 67-76: the two dicts filled by the loop over the rows, keyed by id
GroupBy(rows, keycol, valcol, keyid, valid) ==
    LET order == FirstSeen(rows, keycol)
    IN [k \in 1..Len(order) |->
          [key |-> keyid[order[k]],
           value |-> {valid[rows[j][valcol]] :
                        j \in {i \in 1..Len(rows) : rows[i][keycol] = order[k]}}]]

\* lines 78-83: one k-hot row per value of node_to_label_map, in dict order
LabelMatrix(node_to_label_map, label_count) ==
    [r \in 0..(Len(node_to_label_map) - 1) |->
        map_set_to_khot_vector(node_to_label_map[r + 1].value, label_count)]

\* lines 85-89: the operands of the two assertions, read from self
AssertOperands(g) ==
    [ id_to_node |-> Cardinality(DOMAIN g.id_to_node_map),
      node_to_label |-> Len(g.node_to_label_map),
      id_to_label |-> Cardinality(DOMAIN g.id_to_label_map),
      label_to_node |-> Len(g.label_to_node_map) ]

AssertionsPass(ops) ==
    /\ ops.id_to_node = ops.node_to_label
    /\ ops.id_to_label = ops.label_to_node

read_labels(g, rows, label_to_id_map, node_to_id_map) ==
    LET node_to_label_map == GroupBy(rows, 1, 2, node_to_id_map, label_to_id_map)
        label_to_node_map == GroupBy(rows, 2, 1, label_to_id_map, node_to_id_map)
        label_count == Cardinality(DOMAIN label_to_id_map)
        labels == LabelMatrix(node_to_label_map, label_count)
    IN [g EXCEPT !.label_to_id_map = label_to_id_map,
                 !.node_to_id_map = node_to_id_map,
                 !.node_to_label_map = node_to_label_map,
                 !.label_to_node_map = label_to_node_map,
                 !.id_to_label_map = invert_dict(label_to_id_map),
                 !.id_to_node_map = invert_dict(node_to_id_map),
                 !.labels = labels]

ReadLabels ==
    /\ pc \in {"constructed", "labels_read"}
    /\ calls < MaxCalls
    /\ \E rows \in LabelFiles :
         \E label_to_id_map \in Enumerations(LabelsOf(rows)) :
           \E node_to_id_map \in Enumerations(NodesOf(rows)) :
             /\ data' = rows
             /\ calls' = calls + 1
             /\ asserted' = AssertOperands(graph)
             /\ IF AssertionsPass(AssertOperands(graph))
                THEN /\ graph' = read_labels(graph, rows, label_to_id_map, node_to_id_map)
                     /\ pc' = "labels_read"
                ELSE /\ graph' = graph
                     /\ pc' = "AssertionError"
    /\ UNCHANGED <<call, ret, model_params, pipeline, locals, model>>

(***************************************************************************)
(* Matrices (numpy / scipy.sparse values).                                 *)
(***************************************************************************)
Idx(n) == 0..(n - 1)

Size(m) == Cardinality(DOMAIN m)

Matrices(n, values) == [Idx(n) -> [Idx(n) -> values]]

\* X.T
Transpose(m) == [i \in DOMAIN m |-> [j \in DOMAIN m |-> m[j][i]]]

\* X + Y, X - Y
MatAdd(x, y) == [i \in DOMAIN x |-> [j \in DOMAIN x[i] |-> x[i][j] + y[i][j]]]

MatSub(x, y) == [i \in DOMAIN x |-> [j \in DOMAIN x[i] |-> x[i][j] - y[i][j]]]

\* X > Y: the boolean matrix, True counting as 1 in a product
MatGt(x, y) == [i \in DOMAIN x |-> [j \in DOMAIN x[i] |-> IF x[i][j] > y[i][j] THEN 1 ELSE 0]]

\* X.multiply(Y): the elementwise product
MatMultiply(x, y) == [i \in DOMAIN x |-> [j \in DOMAIN x[i] |-> x[i][j] * y[i][j]]]

\* sp.eye(n), sp.identity(n)
get_identity(size) == [i \in Idx(size) |-> [j \in Idx(size) |-> IF i = j THEN 1 ELSE 0]]

\* ndarray.astype(int32) of a non-negative float given in halves: truncation
AsInt32(halves) == halves \div 2

(***************************************************************************)
(* symmetic_adj                                                            *)
(***************************************************************************)
\* a symmetrization that adds the two directions
symmetic_adj_sum(adj) == MatAdd(adj, Transpose(adj))

symmetic_adj(adj) ==
    LET adj_t == Transpose(adj)
    IN MatSub(MatAdd(adj, MatMultiply(adj_t, MatGt(adj_t, adj))),
              MatMultiply(adj, MatGt(adj_t, adj)))

(***************************************************************************)
(* Base_Graph.read_features                                                *)
(***************************************************************************)
\* a feature file: rows (node, f1) with f1 given in halves; at least two rows
FeatureFiles == UNION {[1..k -> NodeNames \X {1, 2}] : k \in 2..MaxNodes}

\* np.random.uniform(low=0, high=0.5): samples, in hundredths
UniformSamples == {0, 49}

\* lines 119-124: the columns after the node column, cast to int32, in file order
FileFeatures(rows) == [r \in Idx(Len(rows)) |-> [c \in Idx(1) |-> AsInt32(rows[r + 1][2])]]

ReadFeaturesFile ==
    /\ pc = "labels_read"
    /\ \E rows \in FeatureFiles :
         LET node_count == Cardinality(DOMAIN graph.id_to_node_map)
             features == FileFeatures(rows)
         IN IF Size(features) = node_count
            THEN /\ graph' = [graph EXCEPT !.features = features]
                 /\ pc' = "features_read"
            ELSE /\ graph' = graph
                 /\ pc' = "AssertionError"
    /\ UNCHANGED <<data, asserted, calls, call, ret, model_params, pipeline, locals, model>>

\* lines 126-136: no feature file; one_hot gives the identity, otherwise a
\* node_count x dim matrix of uniform samples (dim = 1 here)
ReadFeaturesGenerated ==
    /\ pc = "labels_read"
    /\ LET node_count == Cardinality(DOMAIN graph.id_to_node_map)
       IN \E one_hot \in BOOLEAN :
            \E features \in IF one_hot THEN {get_identity(node_count)}
                            ELSE [Idx(node_count) -> [Idx(1) -> UniformSamples]] :
              IF one_hot /\ ~(node_count > 0)
              THEN /\ graph' = graph
                   /\ pc' = "AssertionError"
              ELSE /\ graph' = [graph EXCEPT !.features = features]
                   /\ pc' = "features_read"
    /\ UNCHANGED <<data, asserted, calls, call, ret, model_params, pipeline, locals, model>>

(***************************************************************************)
(* Graph.read_network                                                      *)
(***************************************************************************)
\* an edge file with at least two rows: (a, b) rows, or (a, b, weight) rows
\* with the weight given in halves
UnweightedFiles == UNION {[1..k -> NodeNames \X NodeNames] : k \in 2..MaxEdges}

WeightedFiles == UNION {[1..k -> NodeNames \X NodeNames \X {1, 3}] : k \in 2..MaxEdges}

\* sp.coo_matrix((values, (rows, cols)), shape): entries at the same place add up
coo_matrix(edges, value, ids, n) ==
    [i \in Idx(n) |-> [j \in Idx(n) |->
        SumOver({k \in 1..Len(edges) : ids[edges[k][1]] = i /\ ids[edges[k][2]] = j},
                [k \in 1..Len(edges) |-> value[k]])]]

ReadNetwork ==
    /\ pc = "features_read"
    /\ \E edges \in UnweightedFiles \cup WeightedFiles :
         LET node_count == Size(graph.features)
             weighted == Len(edges[1]) = 3
             known == \A k \in 1..Len(edges) :
                         /\ edges[k][1] \in DOMAIN graph.node_to_id_map
                         /\ edges[k][2] \in DOMAIN graph.node_to_id_map
             value == [k \in 1..Len(edges) |->
                         IF weighted THEN AsInt32(edges[k][3]) ELSE 1]
             adj == coo_matrix(edges, value, graph.node_to_id_map, node_count)
         IN IF ~known
            THEN /\ pc' = IF weighted THEN "KeyError" ELSE "TypeError"
                 /\ UNCHANGED <<graph, ret>>
            ELSE /\ graph' = [graph EXCEPT !.adj = symmetic_adj(adj),
                                           !.edge_count = Len(edges)]
                 /\ ret' = [kind |-> "matrix", value |-> adj]
                 /\ pc' = "network_read"
    /\ UNCHANGED <<data, asserted, calls, call, model_params, pipeline, locals, model>>

NoOperands == [id_to_node |-> 0, node_to_label |-> 0, id_to_label |-> 0, label_to_node |-> 0]

Init ==
    /\ pc = "constructed"
    /\ graph = NewGraph
    /\ data = <<>>
    /\ asserted = NoOperands
    /\ calls = 0
    /\ call = None
    /\ ret = None
    /\ model_params = None
    /\ pipeline = None
    /\ locals = None
    /\ model = None

Next ==
    \/ ReadLabels
    \/ ReadFeaturesFile
    \/ ReadFeaturesGenerated
    \/ ReadNetwork

Spec == Init /\ [][Next]_vars

(***************************************************************************)
(* Properties of read_labels.                                              *)
(***************************************************************************)
\* C7: every read_labels call checks the maps of the data it is loading: the
\* operands of its two assertions are the number of nodes holding a label in
\* the file and the size of the node id map built from the file (likewise for
\* labels), and the call ends in an assertion error exactly when they disagree.
C7_AssertionsCheckLoadedData ==
    calls > 0 =>
        /\ asserted.node_to_label = Cardinality(NodesOf(data))
        /\ asserted.id_to_node = Cardinality(NodesOf(data))
        /\ asserted.label_to_node = Cardinality(LabelsOf(data))
        /\ asserted.id_to_label = Cardinality(LabelsOf(data))

\* C8: after read_labels the label matrix has one row per node, and the row
\* at index node_to_id_map[s] has 1 at column label_to_id_map[t] iff node s
\* holds label t in the file, whatever ids the set enumeration assigned.
C8_LabelRowsOrderedByNodeId ==
    pc = "labels_read" =>
        /\ DOMAIN graph.labels = Idx(Cardinality(NodesOf(data)))
        /\ \A s \in NodesOf(data) : \A t \in LabelsOf(data) :
             (graph.labels[graph.node_to_id_map[s]][graph.label_to_id_map[t]] = 1)
                <=> (<<s, t>> \in Range(data))

(***************************************************************************)
(* symmetic_adj as a function of any square matrix.                        *)
(***************************************************************************)
AdjSize == 2         \* rows of the matrix handed to symmetic_adj
MaxWeight == 2       \* largest entry of that matrix

InitSym ==
    /\ pc = "called"
    /\ \E n \in 1..AdjSize : \E adj \in Matrices(n, 0..MaxWeight) :
         call = [fn |-> "symmetic_adj", adj |-> adj]
    /\ ret = None
    /\ graph = NewGraph
    /\ data = <<>>
    /\ asserted = NoOperands
    /\ calls = 0
    /\ model_params = None
    /\ pipeline = None
    /\ locals = None
    /\ model = None

SymmeticAdj ==
    /\ pc = "called"
    /\ call.fn = "symmetic_adj"
    /\ ret' = [kind |-> "matrix", value |-> symmetic_adj(call.adj)]
    /\ pc' = "returned"
    /\ UNCHANGED <<graph, data, asserted, calls, call, model_params, pipeline, locals, model>>

NextSym ==
    \/ SymmeticAdj

SpecSym == InitSym /\ [][NextSym]_vars

Max(a, b) == IF a >= b THEN a ELSE b

\* C4: symmetic_adj(A) is symmetric and each entry is the larger of A[i,j]
\* and A[j,i] (a max-merge, not the sum of the two directions).
C4_SymmetrizeIsMaxMerge ==
    (pc = "returned" /\ call.fn = "symmetic_adj") =>
        \A i, j \in DOMAIN call.adj :
            /\ ret.value[i][j] = ret.value[j][i]
            /\ ret.value[i][j] = Max(call.adj[i][j], call.adj[j][i])

\* a call on a matrix whose two directions both carry a weight, and differ
C4_Witness ==
    /\ pc = "returned"
    /\ call.fn = "symmetic_adj"
    /\ \E i, j \in DOMAIN call.adj :
         /\ call.adj[i][j] > call.adj[j][i]
         /\ call.adj[j][i] > 0
         /\ ret.value[j][i] = call.adj[i][j]

(***************************************************************************)
(* renormalization_trick, transform_adj                                    *)
(*                                                                         *)
(* An entry of a renormalized matrix is num / sqrt(rad), kept as the       *)
(* record [num, rad]; an entry that is zero is not stored by the sparse    *)
(* format and stays zero through every scaling.                            *)
(***************************************************************************)
Scaled(num, rad) ==
    IF num = 0 THEN [num |-> 0, rad |-> 1] ELSE [num |-> num, rad |-> rad]

\* adj.sum(1): the row sums
RowSums(adj) == [i \in DOMAIN adj |-> SumOver(DOMAIN adj[i], adj[i])]

\* X.dot(d) for d = diags(power(sums, -0.5)): column j scaled by sums[j]^-1/2
DotDiag(x, sums) ==
    [i \in DOMAIN x |-> [j \in DOMAIN x[i] |-> Scaled(x[i][j].num, x[i][j].rad * sums[j])]]

\* lines 206-214: adj.dot(d).transpose().dot(d) when symmetric; the function
\* has no other branch and then returns None
renormalization_trick(adj, symmetric) ==
    IF symmetric
    THEN LET sums == RowSums(adj)
             lifted == [i \in DOMAIN adj |-> [j \in DOMAIN adj |-> Scaled(adj[i][j], 1)]]
         IN [kind |-> "matrix",
             value |-> DotDiag(Transpose(DotDiag(lifted, sums)), sums)]
    ELSE None

\* a transform that forgets the self connections
transform_adj_no_loops(adj, is_symmetric) == renormalization_trick(adj, is_symmetric)

\* lines 195-204
transform_adj(adj, is_symmetric) ==
    renormalization_trick(MatAdd(adj, get_identity(Size(adj))), is_symmetric)

(***************************************************************************)
(* compute_chebyshev_polynomial                                            *)
(*                                                                         *)
(* Every matrix of the list is a polynomial in the scaled Laplacian X of   *)
(* the graph; it is kept as [of, coef] with coef[k + 1] the coefficient of *)
(* X^k, so that I is <<1>> and X is <<0, 1>>.                              *)
(***************************************************************************)
Coef(p, k) == IF k \in 1..Len(p) THEN p[k] ELSE 0

\* X.dot(current)
PolyDotX(p) == <<0>> \o p

\* 2 * p
PolyScale(c, p) == [k \in 1..Len(p) |-> c * p[k]]

\* p - q
PolySub(p, q) == [k \in 1..Max(Len(p), Len(q)) |-> Coef(p, k) - Coef(q, k)]

\* lines 242-246: next = 2 * X.dot(current) - previous
compute_chebyshev_recurrence(current, previous) ==
    PolySub(PolyScale(2, PolyDotX(current)), previous)

\* lines 233-240: Tk starts as [I, X]; one term is appended for i in 2..degree
RECURSIVE ChebyshevLoop(_, _, _)
ChebyshevLoop(Tk, i, degree) ==
    IF i > degree THEN Tk
    ELSE ChebyshevLoop(
            Append(Tk, compute_chebyshev_recurrence(Tk[Len(Tk)], Tk[Len(Tk) - 1])),
            i + 1, degree)

\* lines 223-232: L = I - renormalization_trick(adj), X = 2L/eigval - I, with
\* eigval the largest-magnitude eigenvalue eigsh(L, k=1) returns
ScaledLaplacian(adj) ==
    [kind |-> "2L/eigval - I", normalized |-> renormalization_trick(adj, TRUE).value]

\* lines 220-240; eigsh(k=1) rejects a matrix of order 1 (k must be below it)
compute_chebyshev_polynomial(adj, degree) ==
    IF Size(adj) <= 1
    THEN [kind |-> "Error"]
    ELSE LET X == ScaledLaplacian(adj)
             Tk == ChebyshevLoop(<< <<1>>, <<0, 1>> >>, 2, degree)
         IN [kind |-> "list",
             value |-> [k \in 1..Len(Tk) |-> [of |-> X, coef |-> Tk[k]]]]

(***************************************************************************)
(* Base_Graph.compute_supports                                             *)
(***************************************************************************)
\* app.utils.constant: the model names
GCN == "gcn"

GCN_POLY == "gcn_poly"

GCN_AE == "gcn_ae"

\* lines 168-179
compute_supports(g, params) ==
    IF params.model_name = GCN_POLY
    THEN compute_chebyshev_polynomial(g.adj, params.support_size - 1)
    ELSE [kind |-> "list", value |-> <<transform_adj(g.adj, TRUE).value>>]

(***************************************************************************)
(* The support computations on a loaded graph.                             *)
(***************************************************************************)
SupNodes == 2          \* nodes of the loaded graph
SupWeight == 2         \* largest edge weight of its adjacency matrix
MaxSupportSize == 3    \* largest model_params.support_size
MaxDegree == 3         \* largest degree of a direct Chebyshev call

NodeName(i) == "n" \o ToString(i)

\* the symmetric matrices: what read_network leaves in self.adj
SymmetricMatrices(n, values) ==
    {[i \in Idx(n) |-> [j \in Idx(n) |-> IF i <= j THEN u[<<i, j>>] ELSE u[<<j, i>>]]] :
        u \in [{<<i, j>> \in Idx(n) \X Idx(n) : i <= j} -> values]}

\* a graph after read_data: n nodes n1..nn with ids 0..n-1, the k-hot rows
\* `labels`, one-hot features and the adjacency matrix `adj`
LoadedGraph(n, labels, adj) ==
    [ NewGraph EXCEPT
        !.node_to_id_map = [s \in {NodeName(i) : i \in 1..n} |->
                               CHOOSE r \in Idx(n) : NodeName(r + 1) = s],
        !.id_to_node_map = [r \in Idx(n) |-> NodeName(r + 1)],
        !.labels = labels,
        !.features = get_identity(n),
        !.adj = adj ]

OneLabel(n) == [r \in Idx(n) |-> [c \in Idx(1) |-> 1]]

InitSupports ==
    /\ pc = "loaded"
    /\ \E n \in 1..SupNodes : \E adj \in SymmetricMatrices(n, 0..SupWeight) :
         graph = LoadedGraph(n, OneLabel(n), adj)
    /\ call = None
    /\ ret = None
    /\ data = <<>>
    /\ asserted = NoOperands
    /\ calls = 0
    /\ model_params = None
    /\ pipeline = None
    /\ locals = None
    /\ model = None

ModelParams ==
    [model_name : {GCN, GCN_POLY, GCN_AE}, support_size : 1..MaxSupportSize,
     dropout : {0, 5}, sparse_features : BOOLEAN]

ComputeSupports ==
    /\ pc = "loaded"
    /\ \E params \in ModelParams :
         /\ model_params' = params
         /\ call' = [fn |-> "compute_supports"]
         /\ ret' = compute_supports(graph, params)
    /\ pc' = "returned"
    /\ UNCHANGED <<graph, data, asserted, calls, pipeline, locals, model>>

TransformAdj ==
    /\ pc = "loaded"
    /\ \E is_symmetric \in BOOLEAN :
         /\ call' = [fn |-> "transform_adj", adj |-> graph.adj, symmetric |-> is_symmetric]
         /\ ret' = transform_adj(graph.adj, is_symmetric)
    /\ pc' = "returned"
    /\ UNCHANGED <<graph, data, asserted, calls, model_params, pipeline, locals, model>>

RenormalizationTrick ==
    /\ pc = "loaded"
    /\ \E symmetric \in BOOLEAN :
         /\ call' = [fn |-> "renormalization_trick", adj |-> graph.adj, symmetric |-> symmetric]
         /\ ret' = renormalization_trick(graph.adj, symmetric)
    /\ pc' = "returned"
    /\ UNCHANGED <<graph, data, asserted, calls, model_params, pipeline, locals, model>>

ComputeChebyshevPolynomial ==
    /\ pc = "loaded"
    /\ \E degree \in 0..MaxDegree :
         /\ call' = [fn |-> "compute_chebyshev_polynomial", adj |-> graph.adj, degree |-> degree]
         /\ ret' = compute_chebyshev_polynomial(graph.adj, degree)
    /\ pc' = "returned"
    /\ UNCHANGED <<graph, data, asserted, calls, model_params, pipeline, locals, model>>

NextSupports ==
    \/ ComputeSupports
    \/ TransformAdj
    \/ RenormalizationTrick
    \/ ComputeChebyshevPolynomial

SpecSupports == InitSupports /\ [][NextSupports]_vars

\* C3: compute_chebyshev_polynomial(adj, degree=k) returns exactly k+1
\* matrices, the first being I (so degree 0 gives [I]), and every element
\* from the third on is 2*X*T_{i-1} - T_{i-2}.
C3_ChebyshevListOfDegreePlusOne ==
    (pc = "returned" /\ call.fn = "compute_chebyshev_polynomial" /\ ret.kind = "list") =>
        /\ Len(ret.value) = call.degree + 1
        /\ ret.value[1].coef = <<1>>
        /\ \A i \in 2..call.degree :
             ret.value[i + 1].coef =
                PolySub(PolyScale(2, PolyDotX(ret.value[i].coef)), ret.value[i - 1].coef)

\* C9: compute_supports returns the Chebyshev list of degree support_size-1
\* for the polynomial model and otherwise the one-element list holding
\* D^-1/2 (A + I) D^-1/2, D the row sums of A + I (the identity added once).
C9_ComputeSupportsDispatch ==
    (pc = "returned" /\ call.fn = "compute_supports") =>
        IF model_params.model_name = GCN_POLY
        THEN ret = compute_chebyshev_polynomial(graph.adj, model_params.support_size - 1)
        ELSE /\ ret.kind = "list"
             /\ Len(ret.value) = 1
             /\ \A i, j \in DOMAIN graph.adj :
                  LET loop(a, b) == IF a = b THEN 1 ELSE 0
                      d(a) == RowSums(graph.adj)[a] + 1
                  IN ret.value[1][i][j] =
                        Scaled(graph.adj[i][j] + loop(i, j), d(i) * d(j))

\* the first-order support of a graph with a weighted edge and a self loop
C9_Witness ==
    /\ pc = "returned"
    /\ call.fn = "compute_supports"
    /\ model_params.model_name = GCN
    /\ Size(graph.adj) = 2
    /\ graph.adj[0][1] = 2
    /\ graph.adj[0][0] = 1
    /\ ret.value[1][0][0] = [num |-> 2, rad |-> 16]
    /\ ret.value[1][0][1].num = 2

\* C10: a call of renormalization_trick or transform_adj that asks for the
\* asymmetric renormalization ends in an error, never in a normal return.
C10_AsymmetricFailsFast ==
    (/\ pc = "returned"
     /\ call.fn \in {"transform_adj", "renormalization_trick"}
     /\ ~call.symmetric) => ret.kind = "Error"

(***************************************************************************)
(* DataPipeline._populate_feed_dicts                                       *)
(***************************************************************************)
FeedNodes == 3         \* nodes of the graph handed to the pipeline

\* X[shuffle]: row i of the result is row shuffle[i] of X
TakeRows(X, shuffle) == [i \in DOMAIN shuffle |-> X[shuffle[i]]]

\* np.arange(n) after np.random.shuffle: any permutation of 0..n-1
Shuffles(n) ==
    {f \in [Idx(n) -> Idx(n)] : \A i, j \in Idx(n) : f[i] = f[j] => i = j}

\* np.arange(start, stop)
arange(start, stop) == [k \in 1..(stop - start) |-> start + k - 1]

\* int(data_size * dataset_splits[i]) with dataset_splits[i] = x / sum of the
\* weights: the product truncated.  (For the sizes and weights used here the
\* double-precision product truncates to the exact quotient.)
BlockSize(data_size, x, splits_sum) == (data_size * x) \div splits_sum

\* lines 132-136
map_indices_to_mask(indices, mask_size) ==
    [i \in Idx(mask_size) |-> IF i \in Range(indices) THEN 1 ELSE 0]

\* the places (row, column) of a matrix
Places(X) == Idx(Size(X)) \X Idx(IF Size(X) = 0 THEN 0 ELSE Size(X[0]))

\* X.tocoo() as tf.SparseTensorValue(indices, coo.data, coo.shape): the
\* entries at the places `stored` (the non-zero ones) in row-major order
SparseTensorValue(X, stored) ==
    LET nrows == Size(X)
        ncols == IF nrows = 0 THEN 0 ELSE Size(X[0])
        place(p) == p[1] * ncols + p[2]
        at(k) == CHOOSE p \in stored :
                    Cardinality({q \in stored : place(q) < place(p)}) = k - 1
    IN [indices |-> [k \in 1..Cardinality(stored) |-> at(k)],
        values |-> [k \in 1..Cardinality(stored) |-> X[at(k)[1]][at(k)[2]]],
        dense_shape |-> <<nrows, ncols>>]

\* lines 139-145, for a matrix of numbers
convert_sparse_matrix_to_sparse_tensor(X) ==
    SparseTensorValue(X, {p \in Places(X) : X[p[1]][p[2]] # 0})

\* the conversion of the list of supports; a Chebyshev term stays the
\* polynomial it is, wrapped as the tensor of that matrix
ConvertSupports(params, supports) ==
    [k \in 1..Len(supports) |->
        IF params.model_name = GCN_POLY
        THEN [tensor_of |-> supports[k]]
        ELSE SparseTensorValue(supports[k],
                {p \in Places(supports[k]) : supports[k][p[1]][p[2]].num # 0})]

\* features.nnz
Nnz(X) == Len(convert_sparse_matrix_to_sparse_tensor(X).values)

\* lines 90-115: the placeholders, named by their slot
placeholder_inputs(support_size) ==
    [ features |-> "features", labels |-> "labels",
      supports |-> [i \in 1..support_size |-> "supports" \o ToString(i - 1)],
      mask |-> "mask", dropout |-> "dropout" ]

\* lines 68-76
get_base_feed_dict(placeholder_dict, labels, features, supports) ==
    [key \in {placeholder_dict.labels, placeholder_dict.features}
                \cup Range(placeholder_dict.supports) |->
        IF key = placeholder_dict.labels THEN labels
        ELSE IF key = placeholder_dict.features THEN features
        ELSE supports[CHOOSE i \in 1..Len(supports) : placeholder_dict.supports[i] = key]]

\* feed_dict[key] = value
SetItem(feed_dict, key, value) ==
    [k \in DOMAIN feed_dict \cup {key} |-> IF k = key THEN value ELSE feed_dict[k]]

\* a second shuffle of the labels: rows taken by another permutation
labels_reshuffled(labels, shuffle) ==
    TakeRows(labels, [i \in DOMAIN shuffle |-> shuffle[Size(shuffle) - 1 - i]])

\* line 55: labels = labels[shuffle]
shuffled_labels(labels, shuffle) == TakeRows(labels, shuffle)

\* lines 29-88, for the permutation `shuffle` drawn at line 45 on a graph
\* with sparse features whose supports were computed: the locals and the
\* fields assigned
populate_feed_dicts(g, params, supports, dataset_splits, shuffle) ==
    LET dataset_splits_sum == dataset_splits[1] + dataset_splits[2] + dataset_splits[3]
        data_size == Size(g.features)
        features == convert_sparse_matrix_to_sparse_tensor(TakeRows(g.features, shuffle))
        tensors == ConvertSupports(params, supports)
        labels == shuffled_labels(g.labels, shuffle)
        size0 == BlockSize(data_size, dataset_splits[1], dataset_splits_sum)
        size1 == BlockSize(data_size, dataset_splits[2], dataset_splits_sum)
        size2 == BlockSize(data_size, dataset_splits[3], dataset_splits_sum)
        train_index == arange(0, 0 + size0)
        current1 == size0
        val_index == arange(current1, current1 + size1)
        current2 == size1
        test_index == arange(current2, current2 + size2)
        placeholder_dict == placeholder_inputs(Len(supports))
        base == get_base_feed_dict(placeholder_dict, labels, features, tensors)
        train1 == SetItem(SetItem(base, placeholder_dict.mask,
                                  map_indices_to_mask(train_index, data_size)),
                          placeholder_dict.dropout, params.dropout)
        validation == SetItem(base, placeholder_dict.mask,
                              map_indices_to_mask(val_index, data_size))
        train2 == SetItem(train1, placeholder_dict.dropout, 0)
        test == SetItem(base, placeholder_dict.mask,
                        map_indices_to_mask(test_index, data_size))
        train3 == SetItem(train2, placeholder_dict.dropout, 0)
    IN [ locals |-> [shuffle |-> shuffle, train_index |-> train_index,
                     val_index |-> val_index, test_index |-> test_index,
                     data_size |-> data_size, dataset_splits |-> dataset_splits],
         num_elements |-> Nnz(g.features),
         placeholder_dict |-> placeholder_dict,
         train_feed_dict |-> train3,
         validation_feed_dict |-> validation,
         test_feed_dict |-> test ]

\* DataPipeline.__init__, lines 13-19, before _populate_feed_dicts runs, on
\* a graph loaded by read_data.  (_populate_graph as written does not load
\* one: line 24 passes the keyword datatset_name, which read_data does not
\* take, and line 25 calls prepare_data, which Graph does not define.)
NewPipeline(g) ==
    [ num_elements |-> -1, feature_size |-> Size(g.features[0]),
      train_feed_dict |-> EmptyDict, validation_feed_dict |-> EmptyDict,
      test_feed_dict |-> EmptyDict, placeholder_dict |-> EmptyDict ]

\* the k-hot label matrices of n nodes over two labels, each label held
KHotLabels(n) ==
    {m \in [Idx(n) -> {[c \in Idx(2) |-> IF c \in S THEN 1 ELSE 0] : S \in {{0}, {1}, {0, 1}}}] :
        \A c \in Idx(2) : \E r \in Idx(n) : m[r][c] = 1}

\* the adjacency matrix of the path n1 - n2 - ... - nn
PathAdj(n) == [i \in Idx(n) |-> [j \in Idx(n) |-> IF i - j \in {-1, 1} THEN 1 ELSE 0]]

FeedParams == {p \in ModelParams : p.model_name # GCN_AE /\ p.support_size = 2}

InitFeed ==
    /\ pc = "graph_populated"
    /\ \E n \in 1..FeedNodes : \E labels \in KHotLabels(n) : \E adj \in {PathAdj(n)} :
         /\ graph = LoadedGraph(n, labels, adj)
         /\ pipeline = NewPipeline(graph)
    /\ model_params \in FeedParams
    /\ locals = None
    /\ call = None
    /\ ret = None
    /\ data = <<>>
    /\ asserted = NoOperands
    /\ calls = 0
    /\ model = None

\* the default split weights and two more
SplitWeights == {<<1200, 500, 1000>>, <<1, 1, 1>>, <<2, 1, 1>>}

PopulateFeedDicts ==
    /\ pc = "graph_populated"
    /\ \E supports \in {compute_supports(graph, model_params)} :
         IF supports.kind = "Error"
         THEN /\ pc' = "Error"
              /\ UNCHANGED <<pipeline, locals>>
         ELSE IF ~model_params.sparse_features
         THEN \* line 47: a dense feature matrix has no tocoo()
              /\ pc' = "AttributeError"
              /\ pipeline' = [pipeline EXCEPT !.num_elements = 0]
              /\ UNCHANGED locals
         ELSE \E dataset_splits \in SplitWeights :
                \E shuffle \in Shuffles(Size(graph.features)) :
                  \E out \in {populate_feed_dicts(graph, model_params, supports.value,
                                                   dataset_splits, shuffle)} :
                    /\ pc' = "fed"
                    /\ locals' = out.locals
                    /\ pipeline' = [pipeline EXCEPT
                          !.num_elements = out.num_elements,
                          !.placeholder_dict = out.placeholder_dict,
                          !.train_feed_dict = out.train_feed_dict,
                          !.validation_feed_dict = out.validation_feed_dict,
                          !.test_feed_dict = out.test_feed_dict]
    /\ UNCHANGED <<graph, data, asserted, calls, call, ret, model_params, model>>

NextFeed ==
    \/ PopulateFeedDicts

SpecFeed == InitFeed /\ [][NextFeed]_vars

\* the value a slot of a feed dict gives the model: the value fed, or the
\* placeholder's default when the dict does not feed it (line 102: 0.0)
Slot(feed_dict, key) ==
    IF key \in DOMAIN feed_dict THEN feed_dict[key] ELSE 0

\* the dense matrix a SparseTensorValue stands for
ToDense(t) ==
    [i \in Idx(t.dense_shape[1]) |-> [j \in Idx(t.dense_shape[2]) |->
        IF \E k \in DOMAIN t.indices : t.indices[k] = <<i, j>>
        THEN t.values[CHOOSE k \in DOMAIN t.indices : t.indices[k] = <<i, j>>]
        ELSE 0]]

FeedDicts == {pipeline.train_feed_dict, pipeline.validation_feed_dict, pipeline.test_feed_dict}

\* C1: the train, validation and test index blocks are pairwise disjoint, and
\* no position has mask 1 in two of the three feed dicts.
C1_SplitsDisjoint ==
    pc = "fed" =>
        /\ Range(locals.train_index) \cap Range(locals.val_index) = {}
        /\ Range(locals.train_index) \cap Range(locals.test_index) = {}
        /\ Range(locals.val_index) \cap Range(locals.test_index) = {}
        /\ \A i \in Idx(locals.data_size) :
             pipeline.train_feed_dict["mask"][i] + pipeline.validation_feed_dict["mask"][i]
                + pipeline.test_feed_dict["mask"][i] <= 1

\* C2: after construction the dropout slot of the train feed dict holds
\* model_params.dropout and that of the validation and test dicts 0.0.
C2_DropoutSlots ==
    pc = "fed" =>
        /\ Slot(pipeline.train_feed_dict, "dropout") = model_params.dropout
        /\ Slot(pipeline.validation_feed_dict, "dropout") = 0
        /\ Slot(pipeline.test_feed_dict, "dropout") = 0

\* C5: one permutation is drawn and applied to both matrices: in each of the
\* three feed dicts row i of the features and row i of the labels are rows
\* shuffle[i] of the graph's features and labels.
C5_FeaturesAndLabelsShareShuffle ==
    pc = "fed" =>
        /\ locals.shuffle \in Shuffles(locals.data_size)
        /\ \A feed_dict \in FeedDicts : \A i \in Idx(locals.data_size) :
             /\ ToDense(feed_dict["features"])[i] = graph.features[locals.shuffle[i]]
             /\ feed_dict["labels"][i] = graph.labels[locals.shuffle[i]]

\* a shuffle that moves every row of a graph whose nodes carry different labels
C5_Witness ==
    /\ pc = "fed"
    /\ locals.data_size = 3
    /\ \A i \in Idx(3) : locals.shuffle[i] # i
    /\ graph.labels[0] # graph.labels[1]
    /\ graph.labels[1] # graph.labels[2]
    /\ pipeline.test_feed_dict["labels"][0] = graph.labels[locals.shuffle[0]]

\* the positions a feed dict's mask selects
Selected(feed_dict) == {i \in DOMAIN feed_dict["mask"] : feed_dict["mask"][i] = 1}

\* C11: the train, validation and test blocks hold floor(w_i * node_count /
\* sum(w)) positions each; when the weights divide the node count evenly
\* every position is in exactly one of the three splits; and every position
\* the truncation leaves over (past the three sizes) is in none of them.
C11_SplitSizesAndCoverage ==
    pc = "fed" =>
        LET w == locals.dataset_splits
            n == locals.data_size
            total == w[1] + w[2] + w[3]
            floor(k) == (n * w[k]) \div total
            covered == floor(1) + floor(2) + floor(3)
            splits(i) == {d \in {"train", "validation", "test"} :
                            i \in Selected(CASE d = "train" -> pipeline.train_feed_dict
                                             [] d = "validation" -> pipeline.validation_feed_dict
                                             [] d = "test" -> pipeline.test_feed_dict)}
        IN /\ Cardinality(Selected(pipeline.train_feed_dict)) = floor(1)
           /\ Cardinality(Selected(pipeline.validation_feed_dict)) = floor(2)
           /\ Cardinality(Selected(pipeline.test_feed_dict)) = floor(3)
           /\ (\A k \in 1..3 : (n * w[k]) % total = 0) =>
                  \A i \in Idx(n) : Cardinality(splits(i)) = 1
           /\ \A i \in Idx(n) : i >= covered => splits(i) = {}

\* the dense matrix a SparseTensorValue of renormalized entries stands for
ToDenseScaled(t) ==
    [i \in Idx(t.dense_shape[1]) |-> [j \in Idx(t.dense_shape[2]) |->
        IF \E k \in DOMAIN t.indices : t.indices[k] = <<i, j>>
        THEN t.values[CHOOSE k \in DOMAIN t.indices : t.indices[k] = <<i, j>>]
        ELSE Scaled(0, 1)]]

\* the node-indexed matrix a fed support is built on: the matrix itself, or
\* for a Chebyshev term the renormalized adjacency its Laplacian comes from
SupportBase(support) ==
    IF "tensor_of" \in DOMAIN support
    THEN support.tensor_of.of.normalized
    ELSE ToDenseScaled(support)

\* a fed support whose entries depend on the order of the nodes: every one
\* but the Chebyshev term of degree 0, the identity
OrderDependent(support) ==
    "tensor_of" \in DOMAIN support => Len(support.tensor_of.coef) > 1

\* the same matrix over the graph's node ids
GraphSupportBase ==
    IF model_params.model_name = GCN_POLY
    THEN renormalization_trick(graph.adj, TRUE).value
    ELSE transform_adj(graph.adj, TRUE).value

\* C13: in every feed dict row / column i of each support matrix refers to
\* the node of row i of the fed features and labels, which is node
\* shuffle[i] of the graph: entry (i, j) of the support is entry
\* (shuffle[i], shuffle[j]) of the graph's support.
C13_SupportsFollowShuffle ==
    pc = "fed" =>
        \A feed_dict \in FeedDicts : \A key \in Range(pipeline.placeholder_dict.supports) :
            OrderDependent(feed_dict[key]) =>
                \A i, j \in Idx(locals.data_size) :
                    SupportBase(feed_dict[key])[i][j]
                        = GraphSupportBase[locals.shuffle[i]][locals.shuffle[j]]

(***************************************************************************)
(* The masked objective of the auto-encoder Base_Model.                    *)
(*                                                                         *)
(* A float is [kind |-> "num", num, den] (the quotient num / den, den > 0),*)
(* or [kind |-> "nan"] or [kind |-> "inf"].  The entries of the adjacency  *)
(* matrix the model scores are numbered 0..NumElements-1.                  *)
(***************************************************************************)
NumElements == 2       \* entries the objective runs over
MaxLoss == 1           \* largest per-entry cross-entropy value

\* app.utils.constant: the modes
TRAIN == "train"

VALIDATION == "validation"

TEST == "test"

Num(n, d) == [kind |-> "num", num |-> n, den |-> d]

NaN == [kind |-> "nan"]

Inf == [kind |-> "inf"]

\* x / s for numbers x >= 0 and s >= 0; 0/0 is nan
FDiv(x, s) ==
    IF s # 0 THEN Num(x, s)
    ELSE IF x = 0 THEN NaN ELSE Inf

\* tf.multiply of a finite number k >= 0 and a float
FMul(k, x) ==
    IF x.kind = "num" THEN Num(k * x.num, x.den)
    ELSE IF x.kind = "nan" \/ k = 0 THEN NaN
    ELSE Inf

FAdd(x, y) ==
    IF x.kind = "nan" \/ y.kind = "nan" THEN NaN
    ELSE IF x.kind = "inf" \/ y.kind = "inf" THEN Inf
    ELSE Num(x.num * y.den + y.num * x.den, x.den * y.den)

\* tf.reduce_sum over the entries 0..n-1
RECURSIVE reduce_sum(_, _)
reduce_sum(x, n) ==
    IF n = 0 THEN Num(0, 1) ELSE FAdd(reduce_sum(x, n - 1), x[n - 1])

\* tf.reduce_mean
reduce_mean(x) ==
    LET total == reduce_sum(x, Size(x))
    IN Num(total.num, total.den * Size(x))

\* tf.sparse_reduce_sum(mask): the sum of the stored values
sparse_reduce_sum(mask) == SumOver(DOMAIN mask, mask)

\* mask / scalar: the stored values divided, nothing else stored
SparseDiv(mask, s) == [e \in DOMAIN mask |-> FDiv(mask[e], s)]

\* tf.sparse_tensor_to_dense: 0 where nothing is stored
sparse_tensor_to_dense(sp, n) ==
    [e \in Idx(n) |-> IF e \in DOMAIN sp THEN sp[e] ELSE Num(0, 1)]

\* lines 55-59 and 76-80: the sum of the values weighted by mask / sum(mask)
compute_masked(values, mask) ==
    LET normalized_mask == SparseDiv(mask, sparse_reduce_sum(mask))
        dense == sparse_tensor_to_dense(normalized_mask, Size(values))
    IN reduce_sum([e \in DOMAIN values |-> FMul(values[e], dense[e])], Size(values))

\* the masked branch taken in every mode
Cond_always_masked(m, values) == compute_masked(values, m.mask)

\* tf.cond(tf.equal(self.mode, TRAIN), mean, masked)
Cond(m, values) ==
    IF m.mode = TRAIN
    THEN reduce_mean([e \in DOMAIN values |-> Num(values[e], 1)])
    ELSE compute_masked(values, m.mask)

\* lines 44-67
loss_op(m) == FMul(m.normalisation_constant, Cond(m, m.complete_loss))

\* lines 69-86
accuracy_op(m) ==
    Cond(m, [e \in DOMAIN m.predictions |-> IF m.predictions[e] = m.labels[e] THEN 1 ELSE 0])

\* a sparse mask over the entries: any subset stored, each stored value 0 or 1
SparseMasks(n) == UNION {[S -> {0, 1}] : S \in SUBSET Idx(n)}

InitObjective ==
    /\ pc = "built"
    /\ \E mode \in {TRAIN, VALIDATION, TEST} : \E mask \in SparseMasks(NumElements) :
         \E complete_loss \in [Idx(NumElements) -> 0..MaxLoss] :
           \E predictions \in [Idx(NumElements) -> {0, 1}] :
             \E normalisation_constant \in {1, 2} :
               model = [ mode |-> mode, mask |-> mask, complete_loss |-> complete_loss,
                         predictions |-> predictions,
                         labels |-> [e \in Idx(NumElements) |-> 1],
                         normalisation_constant |-> normalisation_constant,
                         loss |-> None, accuracy |-> None ]
    /\ graph = NewGraph
    /\ data = <<>>
    /\ asserted = NoOperands
    /\ calls = 0
    /\ call = None
    /\ ret = None
    /\ model_params = None
    /\ pipeline = None
    /\ locals = None

\* lines 161-169 evaluated on one feed: loss and accuracy
ComputeMetrics ==
    /\ pc = "built"
    /\ model' = [model EXCEPT !.loss = loss_op(model), !.accuracy = accuracy_op(model)]
    /\ pc' = "evaluated"
    /\ UNCHANGED <<graph, data, asserted, calls, call, ret, model_params, pipeline, locals>>

NextObjective ==
    \/ ComputeMetrics

SpecObjective == InitObjective /\ [][NextObjective]_vars

\* C6: in eval mode with a mask whose sum is zero the loss and the accuracy
\* end in a DomainError instead of a division by the zero mask sum.
C6_EmptySplitRaises ==
    (/\ pc = "evaluated"
     /\ model.mode # TRAIN
     /\ sparse_reduce_sum(model.mask) = 0) =>
        /\ model.loss.kind = "DomainError"
        /\ model.accuracy.kind = "DomainError"

\* the float x is the quotient num / den
IsQuotient(x, num, den) == x.kind = "num" /\ x.num * den = num * x.den

\* per entry: 1 where the prediction equals the label
CorrectPredictions(m) ==
    [e \in DOMAIN m.predictions |-> IF m.predictions[e] = m.labels[e] THEN 1 ELSE 0]

\* sum(values * mask) over the stored entries of the mask
MaskedSum(values, mask) ==
    SumOver(DOMAIN mask, [e \in DOMAIN mask |-> values[e] * mask[e]])

\* C12 as stated: in train mode the loss and the accuracy are the plain mean
\* over all entries, whatever the mask; in every other mode they are
\* sum(value * mask) / sum(mask).
C12_MaskedObjectiveTwoModes ==
    pc = "evaluated" =>
        LET n == Size(model.complete_loss)
            S == sparse_reduce_sum(model.mask)
            correct == CorrectPredictions(model)
        IN IF model.mode = TRAIN
           THEN /\ IsQuotient(model.loss, SumOver(Idx(n), model.complete_loss), n)
                /\ IsQuotient(model.accuracy, SumOver(Idx(n), correct), n)
           ELSE S # 0 =>
                /\ IsQuotient(model.loss, MaskedSum(model.complete_loss, model.mask), S)
                /\ IsQuotient(model.accuracy, MaskedSum(correct, model.mask), S)

\* C12 amended: the loss carries the factor normalisation_constant in both
\* modes and the accuracy does not.  In train mode the accuracy is the plain
\* mean over all entries and the loss that mean times the constant, whatever
\* the mask; in every other mode the accuracy is sum(value * mask) / sum(mask)
\* and the loss that quotient times the constant, so entries where the mask
\* is 0 or stores nothing do not count; with a zero mask sum the quotient is
\* the float 0/0: nan, or 0 when the mask stores no entry.
C12_LossScaledByNormalisationConstant ==
    pc = "evaluated" =>
        LET n == Size(model.complete_loss)
            S == sparse_reduce_sum(model.mask)
            c == model.normalisation_constant
            correct == CorrectPredictions(model)
        IN IF model.mode = TRAIN
           THEN /\ IsQuotient(model.loss, c * SumOver(Idx(n), model.complete_loss), n)
                /\ IsQuotient(model.accuracy, SumOver(Idx(n), correct), n)
           ELSE IF S # 0
           THEN /\ IsQuotient(model.loss, c * MaskedSum(model.complete_loss, model.mask), S)
                /\ IsQuotient(model.accuracy, MaskedSum(correct, model.mask), S)
           ELSE IF DOMAIN model.mask = {}
           THEN /\ IsQuotient(model.loss, 0, 1)
                /\ IsQuotient(model.accuracy, 0, 1)
           ELSE /\ model.loss = NaN
                /\ model.accuracy = NaN

\* an evaluation in validation mode with constant 2 where the mask selects
\* entry 0 and not entry 1, and both entries have a loss of 1
C12_Witness ==
    /\ pc = "evaluated"
    /\ model.mode = VALIDATION
    /\ model.normalisation_constant = 2
    /\ DOMAIN model.mask = {0, 1}
    /\ model.mask[0] = 1
    /\ model.mask[1] = 0
    /\ model.complete_loss[0] = 1
    /\ model.complete_loss[1] = 1
    /\ IsQuotient(model.loss, 2, 1)
====
